---------------------------- MODULE Spec2Model ----------------------------
(***************************************************************************)
(* Screw Your Neighbor: the round engine of screw_your_neighbor.py over    *)
(* the deck of cards.py.                                                   *)
(*                                                                         *)
(* A game state (SYNGameState) owns a table, a deck, a round counter and a *)
(* dealer button.  SYNGame.play_a_round drives one round through           *)
(* start_round, process_turns, calculate_results, the database record,     *)
(* collect_all_hands and advance_round.  Between rounds a driver may       *)
(* construct a new SYNPlayer and seat it (SYNGameState.add_player).        *)
(*                                                                         *)
(* The deck is the full product Suit x Rank of cards.py cut down to two    *)
(* suits and to the ranks Ace and King, so that every shuffle can be       *)
(* enumerated.  In Spec every strategy is an arbitrary boolean answer      *)
(* (SYNStrat.run is an open interface); SpecStrat plays the strategies of  *)
(* strategies.py, and SpecDeck calls the methods of the Deck directly.     *)
(***************************************************************************)
EXTENDS Integers, Sequences, FiniteSets, TLC

VARIABLES
    strategy,           \* SYNPlayer.strategy, per player id
    result,             \* what a call made on a deck or a player returned
    database,           \* SYNGame: TRUE iff the game was built with a dbname
    recorded,           \* number of add_round_results calls made so far
    seats,              \* SYNTable.seats: seat index -> player id or None
    created,            \* number of SYNPlayer objects constructed so far
    current_stack,      \* SYNPlayer.current_stack, per player id
    orig_card,          \* SYNPlayer.orig_card
    pre_swap_card,      \* SYNPlayer.pre_swap_card
    current_card,       \* SYNPlayer.current_card
    attempted_to_swap,  \* SYNPlayer.attempted_to_swap
    target_of_swap,     \* SYNPlayer.target_of_swap
    deck,               \* Deck.cards, top of the deck first
    round,              \* SYNGameState.round
    dealer_button,      \* SYNGameState.dealer_button (index into players)
    current_low,        \* SYNGameState.current_low
    cur_losers,         \* SYNGameState.cur_losers, a list of player ids
    pc,                 \* position inside play_a_round
    practice_round,     \* argument of the play_a_round call in progress
    turn,               \* loop index i of process_turns
    acted,              \* this round's consultations: <<list index, answer>>
    error               \* exception that ended the last call

vars == <<strategy, result, database, recorded, seats, created,
          current_stack, orig_card, pre_swap_card, current_card,
          attempted_to_swap, target_of_swap, deck, round, dealer_button, current_low, cur_losers, pc,
          practice_round, turn, acted, error>>

(***************************************************************************)
(* Bounds of the model.                                                    *)
(***************************************************************************)
NumSeats == 3        \* seats of the table (SYNGame's num_seats)
MaxPlayers == 2      \* SYNPlayer objects a driver constructs in all
MaxRounds == 1       \* completed rounds before the driver stops

(***************************************************************************)
(* cards.py                                                                *)
(***************************************************************************)
Ace == 1
King == 13
None == "None"
\* an empty hand (a card field holding None)
NoCard == [suit |-> None, rank |-> 0]

\* Rank(Enum), in definition order: the ranks below King kept in the model,
\* then King.
Rank == <<Ace, King>>

\* Suit(Enum), in definition order: the suits kept in the model.
Suit == <<"Clubs", "Diamonds">>

Card(suit, rank) == [suit |-> suit, rank |-> rank]

\* Card.is_stealable
is_stealable(card) == card.rank # King

\* Deck.__init__(empty=False): for suit in Suit: for rank in Rank: append
NewDeck ==
    [k \in 1..(Len(Suit) * Len(Rank)) |->
        Card(Suit[((k - 1) \div Len(Rank)) + 1], Rank[((k - 1) % Len(Rank)) + 1])]

\* the "52" of start_round's assertion: the size of a full deck
FullDeckSize == Len(NewDeck)

Range(s) == {s[k] : k \in DOMAIN s}

\* the rearrangements of a full deck's positions
FullDeckOrders == Permutations(1..FullDeckSize)

\* Deck.shuffle: random.shuffle leaves any permutation of the cards
ShuffleOutcomes(cards) ==
    {[k \in 1..Len(cards) |-> cards[p[k]]] :
        p \in IF Len(cards) = FullDeckSize THEN FullDeckOrders
              ELSE Permutations(1..Len(cards))}

\* return_card gone wrong: the returned card never reaches the deck
return_card_dropped(cards, card) == cards

\* the return gone wrong: the card is put back on top of the deck
return_card_on_top(cards, card) == <<card>> \o cards

\* the membership test gone wrong: a card already in the deck is accepted
return_card_never_raises(cards, card) == FALSE

\* Deck.return_card: a card already in the deck raises ValueError
return_card_raises(cards, card) == card \in Range(cards)
return_card(cards, card) == Append(cards, card)

\* deal_single gone wrong: the card is taken from the bottom (pop)
deal_single_from_bottom(cards) ==
    [card |-> cards[Len(cards)], cards |-> SubSeq(cards, 1, Len(cards) - 1)]

\* Deck.deal_single: popleft, as the card dealt and the cards left
deal_single(cards) == [card |-> Head(cards), cards |-> Tail(cards)]

\* deque.remove(card): the first card equal to it is taken out
RECURSIVE remove(_, _)
remove(cards, card) ==
    IF cards = <<>> THEN <<>>
    ELSE IF Head(cards) = card THEN Tail(cards)
    ELSE <<Head(cards)>> \o remove(Tail(cards), card)

\* deal_specific gone wrong: a card that is not there costs the top card
deal_specific_drops_top(cards, suit, rank) ==
    IF Card(suit, rank) \in Range(cards)
    THEN [card |-> Card(suit, rank), cards |-> remove(cards, Card(suit, rank))]
    ELSE [card |-> NoCard, cards |-> IF cards = <<>> THEN cards ELSE Tail(cards)]

\* Deck.deal_specific: remove raises for a card that is not there, and the
\* except clause turns that into None
deal_specific(cards, suit, rank) ==
    IF Card(suit, rank) \in Range(cards)
    THEN [card |-> Card(suit, rank), cards |-> remove(cards, Card(suit, rank))]
    ELSE [card |-> NoCard, cards |-> cards]

(***************************************************************************)
(* SYNTable                                                                *)
(***************************************************************************)
\* an empty seat (None in self.seats); player ids count from 1
NoPlayer == 0
SeatIds == 0..(NumSeats - 1)
\* one object more than Spec constructs, for the longer game of SpecLong
PlayerIds == 1..(MaxPlayers + 1)

\* self.players = [person for person in self.seats if person is not None]
RECURSIVE PlayersFrom(_, _)
PlayersFrom(st, s) ==
    IF s >= NumSeats THEN <<>>
    ELSE IF st[s] = NoPlayer THEN PlayersFrom(st, s + 1)
    ELSE <<st[s]>> \o PlayersFrom(st, s + 1)

Players == PlayersFrom(seats, 0)
num_players == Len(Players)


(***************************************************************************)
(* SYNPlayer                                                               *)
(***************************************************************************)
\* join_game(self, game, stack=4): the default stake
StartStack == 4

\* can_be_stolen_from gone wrong: a King is given up like any other card
CanAlwaysBeStolenFrom(p) == TRUE

\* SYNPlayer.can_be_stolen_from
can_be_stolen_from(p) == is_stealable(current_card[p])

(***************************************************************************)
(* strategies.py.  A strategy object is its class and, for the naive       *)
(* first-seat strategy, its lowest_to_keep.                                 *)
(***************************************************************************)
Strategy(name, lowest_to_keep) ==
    [name |-> name, lowest_to_keep |-> lowest_to_keep]

\* any implementation of the interface SYNStrat: run answers True or False
SYNStrat == Strategy("SYNStrat", NoCard.rank)
SYNStrat_cheater_villain == Strategy("cheater_villain", NoCard.rank)
SYNStrat_naive_firstonly(lowest_to_keep) ==
    Strategy("naive_firstonly", lowest_to_keep)

\* a call made on a deck or a player by the driver: the method, the card it
\* was given or asked for, the card it returned
Call(op, arg, ret) == [op |-> op, arg |-> arg, ret |-> ret]

(***************************************************************************)
(* State after SYNGame.__init__ / SYNGameState.__init__: an empty table, a *)
(* full unshuffled deck; every SYNPlayer not yet constructed carries the   *)
(* field values its constructor will give it.                              *)
(***************************************************************************)
Init ==
    /\ strategy = [p \in PlayerIds |-> SYNStrat]
    /\ result = Call(None, NoCard, NoCard)
    /\ database \in BOOLEAN
    /\ recorded = 0
    /\ seats = [s \in SeatIds |-> NoPlayer]
    /\ created = 0
    /\ current_stack = [p \in PlayerIds |-> None]
    /\ orig_card = [p \in PlayerIds |-> NoCard]
    /\ pre_swap_card = [p \in PlayerIds |-> NoCard]
    /\ current_card = [p \in PlayerIds |-> NoCard]
    /\ attempted_to_swap = [p \in PlayerIds |-> FALSE]
    /\ target_of_swap = [p \in PlayerIds |-> FALSE]
    /\ deck = NewDeck
    /\ round = 0
    /\ dealer_button = 0
    /\ current_low = King
    /\ cur_losers = <<>>
    /\ pc = "idle"
    /\ practice_round = FALSE
    /\ turn = 0
    /\ acted = <<>>
    /\ error = None

(***************************************************************************)
(* SYNGameState.add_player = SYNTable.add_player + SYNPlayer.join_game,    *)
(* called between two rounds.  An occupied seat is taken over; the         *)
(* previous occupant leaves the player list.                               *)
(***************************************************************************)
\* self.seats[seat]: a Python list takes an index -len .. -1 as len + index
list_index(seat) == IF seat < 0 THEN NumSeats + seat ELSE seat

\* What SYNTable.add_player raises: Exception for an entity that is not a
\* SYNPlayer (None stands for all of them) and for seat >= len(self.seats),
\* and the IndexError of self.seats[seat] for a seat below -len(self.seats).
add_player_error(entity, seat) ==
    IF entity = NoPlayer THEN "Exception"
    ELSE IF seat >= NumSeats THEN "Exception"
    ELSE IF seat < -NumSeats THEN "IndexError"
    ELSE None

\* add_player raises: nothing is seated and join_game is not reached
add_player_raises(entity, seat) ==
    /\ pc = "idle"
    /\ add_player_error(entity, seat) # None
    /\ error' = add_player_error(entity, seat)
    /\ UNCHANGED <<strategy, database, recorded, seats, created,
                   current_stack, orig_card, pre_swap_card, current_card,
                   attempted_to_swap, target_of_swap, deck, round,
                   dealer_button, current_low, cur_losers, pc, practice_round,
                   turn, acted>>

add_player(player, seat) ==
    /\ pc = "idle"
    /\ add_player_error(player, seat) = None
    /\ seats' = [seats EXCEPT ![list_index(seat)] = player]
    /\ current_stack' = [current_stack EXCEPT ![player] = StartStack]
    /\ UNCHANGED <<database, recorded, orig_card, pre_swap_card,
                   current_card, attempted_to_swap, target_of_swap, deck, round,
                   dealer_button, current_low, cur_losers, pc, practice_round,
                   turn, acted, error>>

\* The driver constructs a new SYNPlayer(strat) and seats it, as
\* simulations.py does for the hero and for each villain.
seat_new_player(strat, seat) ==
    /\ created' = created + 1
    /\ strategy' = [strategy EXCEPT ![created + 1] = strat]
    /\ add_player(created + 1, seat)
    /\ UNCHANGED result

(***************************************************************************)
(* start_round                                                             *)
(***************************************************************************)
\* the deal gone wrong: every player is dealt the bottom card
RECURSIVE begin_turns_from_bottom(_, _, _, _)
begin_turns_from_bottom(players, cc, oc, d) ==
    IF players = <<>> THEN [cc |-> cc, oc |-> oc, d |-> d]
    ELSE LET p == Head(players) IN
         begin_turns_from_bottom(Tail(players),
                    [cc EXCEPT ![p] = d[Len(d)]],
                    [oc EXCEPT ![p] = d[Len(d)]], SubSeq(d, 1, Len(d) - 1))

\* begin_turn for each of players in turn: reset the cards, then draw (current_card is
\* None, so draw takes deal_single = the top card and records it as
\* orig_card).
RECURSIVE begin_turns(_, _, _, _)
begin_turns(players, cc, oc, d) ==
    IF players = <<>> THEN [cc |-> cc, oc |-> oc, d |-> d]
    ELSE LET p == Head(players) IN
         begin_turns(Tail(players), [cc EXCEPT ![p] = Head(d)],
                    [oc EXCEPT ![p] = Head(d)], Tail(d))

\* the comparison of the "current low" loops
IsNewLow(rank, low) == rank < low

\* start_round's second loop: current_low after the players have been
\* looked at in turn
RECURSIVE DealtLow(_, _, _)
DealtLow(players, cc, low) ==
    IF players = <<>> THEN low
    ELSE IF IsNewLow(cc[Head(players)].rank, low)
         THEN DealtLow(Tail(players), cc, cc[Head(players)].rank)
         ELSE DealtLow(Tail(players), cc, low)

\* assert len(self.deck.cards) == 52
DeckIsFull == Len(deck) = FullDeckSize

start_round(practice) ==
    /\ pc = "idle"
    /\ DeckIsFull
    /\ \E shuffled \in ShuffleOutcomes(deck) :
        LET dealt == begin_turns(Players, current_card, orig_card, shuffled) IN
        /\ current_card' = dealt.cc
        /\ orig_card' = dealt.oc
        /\ deck' = dealt.d
        /\ current_low' = DealtLow(Players, dealt.cc, King)
    /\ LET seated == Range(Players) IN
        /\ attempted_to_swap' =
            [p \in PlayerIds |->
                IF p \in seated THEN FALSE ELSE attempted_to_swap[p]]
        /\ target_of_swap' =
            [p \in PlayerIds |->
                IF p \in seated THEN FALSE ELSE target_of_swap[p]]
    /\ cur_losers' = <<>>
    /\ practice_round' = practice
    /\ pc' = "dealt"
    /\ turn' = 0
    /\ acted' = <<>>
    /\ error' = None
    /\ UNCHANGED <<strategy, result, database, recorded, seats, created, current_stack,
                   pre_swap_card, round, dealer_button>>

\* the assertion gone wrong: it comes after the reset of the round's results
start_round_fails_after_reset ==
    /\ pc = "idle"
    /\ ~DeckIsFull
    /\ error' = "AssertionError"
    /\ cur_losers' = <<>>
    /\ current_low' = King
    /\ UNCHANGED <<strategy, result, database, recorded, seats, created, current_stack,
                   orig_card, pre_swap_card, current_card, attempted_to_swap,
                   target_of_swap, deck, round, dealer_button, pc,
                   practice_round, turn, acted>>

\* the assertion fails: play_a_round ends with AssertionError, nothing done
start_round_fails ==
    /\ pc = "idle"
    /\ ~DeckIsFull
    /\ error' = "AssertionError"
    /\ UNCHANGED <<strategy, result, database, recorded, seats, created, current_stack,
                   orig_card, pre_swap_card, current_card, attempted_to_swap,
                   target_of_swap, deck, round, dealer_button, current_low,
                   cur_losers, pc, practice_round, turn, acted>>

(***************************************************************************)
(* process_turns                                                           *)
(***************************************************************************)
\* the seat arithmetic gone wrong: the loop starts at the button itself
CurSeatFromButton(i) == (dealer_button + i) % num_players

\* cur_seat = (first_player + i + 1) % num_players, first_player = button
CurSeat(i) == (dealer_button + i + 1) % num_players
\* next_seat = (cur_seat + 1) % num_players
NextSeat(cur_seat) == (cur_seat + 1) % num_players
\* self.table.players[seat] (Python lists count from 0)
PlayerAt(seat) == Players[seat + 1]
\* the button test gone wrong: the seat after the button is taken for it
IsSeatAfterButton(cur_seat) == cur_seat = (dealer_button + 1) % num_players

\* if cur_seat == self.dealer_button
IsButtonSeat(cur_seat) == cur_seat = dealer_button

\* if num_players < 2: raise ValueError
process_turns_raises ==
    /\ pc = "dealt"
    /\ num_players < 2
    /\ error' = "ValueError"
    /\ pc' = "idle"
    /\ UNCHANGED <<strategy, result, database, recorded, seats, created, current_stack,
                   orig_card, pre_swap_card, current_card, attempted_to_swap,
                   target_of_swap, deck, round, dealer_button, current_low,
                   cur_losers, practice_round, turn, acted>>

\* the exchange gone wrong: no temp, both end with player2's card
swap_without_temp(cc, player1, player2) ==
    [cc EXCEPT ![player1] = cc[player2]]

\* SYNPlayer.swap: the cards after the exchange
SYNPlayer_swap(cc, player1, player2) ==
    [cc EXCEPT ![player1] = cc[player2], ![player2] = cc[player1]]

\* One iteration of the loop: take_turn (strategy.run answers swap), then
\* the swap with the deck (the button) or with the next player.
process_turns_step(swap) ==
    /\ pc \in {"dealt", "turns"}
    /\ num_players >= 2
    /\ turn < num_players
    /\ LET cur_seat == CurSeat(turn)
           cur_player == PlayerAt(cur_seat)
           next_player == PlayerAt(NextSeat(cur_seat))
       IN
        /\ attempted_to_swap' = [attempted_to_swap EXCEPT ![cur_player] = swap]
        /\ pre_swap_card' =
            [pre_swap_card EXCEPT ![cur_player] = current_card[cur_player]]
        /\ acted' = Append(acted, <<cur_seat, swap>>)
        /\ IF swap /\ IsButtonSeat(cur_seat)
           THEN \* cur_player.draw(self.deck, replace=True)
                IF return_card_raises(deck, current_card[cur_player])
                THEN /\ error' = "ValueError"
                     /\ pc' = "idle"
                     /\ UNCHANGED <<current_card, target_of_swap, deck, turn>>
                ELSE LET returned == return_card(deck, current_card[cur_player])
                     IN /\ current_card' =
                            [current_card EXCEPT ![cur_player] = Head(returned)]
                        /\ deck' = Tail(returned)
                        /\ turn' = turn + 1
                        /\ pc' = IF turn + 1 = num_players
                                 THEN "processed" ELSE "turns"
                        /\ UNCHANGED <<target_of_swap, error>>
           ELSE /\ IF swap /\ can_be_stolen_from(next_player)
                   THEN \* SYNPlayer.swap(cur_player, next_player)
                        /\ current_card' =
                            SYNPlayer_swap(current_card, cur_player, next_player)
                        /\ target_of_swap' =
                            [target_of_swap EXCEPT ![next_player] = TRUE]
                   ELSE UNCHANGED <<current_card, target_of_swap>>
                /\ turn' = turn + 1
                /\ pc' = IF turn + 1 = num_players THEN "processed" ELSE "turns"
                /\ UNCHANGED <<deck, error>>
    /\ UNCHANGED <<strategy, result, database, recorded, seats, created, current_stack,
                   orig_card, round, dealer_button, current_low, cur_losers,
                   practice_round>>

(***************************************************************************)
(* strategies.py: what strategy.run(player, gamestate) answers             *)
(***************************************************************************)
\* the cheater gone wrong: an opponent's equal card makes it hold as well
RECURSIVE cheater_run_strict(_, _)
cheater_run_strict(player, opponents) ==
    IF opponents = <<>> THEN TRUE
    ELSE IF /\ Head(opponents) # player
            /\ current_card[Head(opponents)].rank <= current_card[player].rank
         THEN FALSE
         ELSE cheater_run_strict(player, Tail(opponents))

\* SYNStrat_cheater_villain.run: the loop over gamestate.table.players, of
\* which opponents are still to be looked at
RECURSIVE cheater_run(_, _)
cheater_run(player, opponents) ==
    IF opponents = <<>> THEN TRUE
    ELSE IF /\ Head(opponents) # player
            /\ current_card[Head(opponents)].rank < current_card[player].rank
         THEN FALSE
         ELSE cheater_run(player, Tail(opponents))

\* self._game.table.players.index(self)
index(players, player) ==
    CHOOSE k \in 0..(Len(players) - 1) :
        /\ players[k + 1] = player
        /\ \A j \in 0..(k - 1) : players[j + 1] # player

\* the position gone wrong: counted from the button, not from the seat after
get_relative_pos_from_button(player) ==
    (index(Players, player) - dealer_button) % num_players

\* SYNPlayer.get_relative_pos
get_relative_pos(player) ==
    (index(Players, player) - 1 - dealer_button) % num_players

\* the threshold test gone wrong: a card of the threshold's rank is passed on
naive_pass_if_not_higher(player, lowest_to_keep) ==
    ~(current_card[player].rank > lowest_to_keep)

\* naive_pass_if_low: False if rank >= lowest_to_keep, else True
naive_pass_if_low(player, lowest_to_keep) ==
    ~(current_card[player].rank >= lowest_to_keep)

\* SYNStrat_naive_firstonly.run raises NotImplementedError
run_raises(player) ==
    /\ strategy[player].name = "naive_firstonly"
    /\ get_relative_pos(player) # 0

\* the answers strategy.run can give when it returns
run(player) ==
    CASE strategy[player].name = "cheater_villain" ->
            {cheater_run(player, Players)}
      [] strategy[player].name = "naive_firstonly" ->
            {naive_pass_if_low(player, strategy[player].lowest_to_keep)}
      [] OTHER -> BOOLEAN

\* the failure gone wrong: the round is counted although it was given up
take_turn_raises_counted ==
    /\ pc \in {"dealt", "turns"}
    /\ num_players >= 2
    /\ turn < num_players
    /\ run_raises(PlayerAt(CurSeat(turn)))
    /\ error' = "NotImplementedError"
    /\ round' = round + 1
    /\ pc' = "idle"
    /\ UNCHANGED <<strategy, result, database, recorded, seats, created,
                   current_stack, orig_card, pre_swap_card, current_card,
                   attempted_to_swap, target_of_swap, deck,
                   dealer_button, current_low, cur_losers, practice_round,
                   turn, acted>>

\* take_turn: strategy.run raises before attempted_to_swap is assigned, and
\* the exception ends process_turns and play_a_round
take_turn_raises ==
    /\ pc \in {"dealt", "turns"}
    /\ num_players >= 2
    /\ turn < num_players
    /\ run_raises(PlayerAt(CurSeat(turn)))
    /\ error' = "NotImplementedError"
    /\ pc' = "idle"
    /\ UNCHANGED <<strategy, result, database, recorded, seats, created,
                   current_stack, orig_card, pre_swap_card, current_card,
                   attempted_to_swap, target_of_swap, deck, round,
                   dealer_button, current_low, cur_losers, practice_round,
                   turn, acted>>

\* one iteration of process_turns with the answer of the player's strategy
process_turns_run ==
    /\ pc \in {"dealt", "turns"}
    /\ num_players >= 2
    /\ turn < num_players
    /\ ~run_raises(PlayerAt(CurSeat(turn)))
    /\ \E swap \in run(PlayerAt(CurSeat(turn))) : process_turns_step(swap)

(***************************************************************************)
(* calculate_results                                                       *)
(***************************************************************************)
\* the loop gone wrong: a tie replaces the loser list instead of growing it
RECURSIVE LowAndLastLoser(_, _, _)
LowAndLastLoser(players, low, losers) ==
    IF players = <<>> THEN [low |-> low, losers |-> losers]
    ELSE LET p == Head(players)
             rank == current_card[p].rank
         IN IF rank <= low THEN LowAndLastLoser(Tail(players), rank, <<p>>)
            ELSE LowAndLastLoser(Tail(players), low, losers)

\* The loop over self.table.players, with current_low = low and
\* cur_losers = losers so far.
RECURSIVE LowAndLosers(_, _, _)
LowAndLosers(players, low, losers) ==
    IF players = <<>> THEN [low |-> low, losers |-> losers]
    ELSE LET p == Head(players)
             rank == current_card[p].rank
         IN IF rank = low
            THEN LowAndLosers(Tail(players), low, Append(losers, p))
            ELSE IF IsNewLow(rank, low)
            THEN LowAndLosers(Tail(players), rank, <<p>>)
            ELSE LowAndLosers(Tail(players), low, losers)

\* if self.cur_losers == self.table.players
LosersAreTable(losers) == losers = Players

\* tiegame gone wrong: the stacks are not looked at
tiegame_ignores_stacks(losers, stacks) == ~(losers = Players)

\* tiegame after lines 162-167: it starts True and turns False only when the
\* losers are the whole table and one of them has a stack other than zero
tiegame(losers, stacks) ==
    ~(LosersAreTable(losers) /\ \E k \in DOMAIN losers : stacks[losers[k]] # 0)

\* the deduction gone wrong: only the first loser pays
DeductFirst(losers, stacks) ==
    IF losers = <<>> THEN stacks
    ELSE [stacks EXCEPT ![Head(losers)] = stacks[Head(losers)] - 1]

\* for player in self.cur_losers: player.current_stack -= 1
RECURSIVE Deduct(_, _)
Deduct(losers, stacks) ==
    IF losers = <<>> THEN stacks
    ELSE Deduct(Tail(losers),
                [stacks EXCEPT ![Head(losers)] = stacks[Head(losers)] - 1])

\* the settlement gone wrong: the practice flag is not looked at
StacksAfterAnyRound(practice, losers, stacks) ==
    IF ~tiegame(losers, stacks) THEN Deduct(losers, stacks) ELSE stacks

\* the stacks calculate_results leaves behind
StacksAfter(practice, losers, stacks) ==
    IF practice = FALSE /\ ~tiegame(losers, stacks)
    THEN Deduct(losers, stacks)
    ELSE stacks

calculate_results ==
    /\ pc = "processed"
    /\ LET res == LowAndLosers(Players, King, cur_losers) IN
        /\ current_low' = res.low
        /\ cur_losers' = res.losers
        /\ current_stack' = StacksAfter(practice_round, res.losers, current_stack)
    /\ pc' = "settled"
    /\ UNCHANGED <<strategy, result, database, recorded, seats, created, orig_card,
                   pre_swap_card, current_card, attempted_to_swap,
                   target_of_swap, deck, round, dealer_button, practice_round,
                   turn, acted, error>>

(***************************************************************************)
(* play_a_round: if self.database is not None: add_round_results(self)     *)
(***************************************************************************)
add_round_results ==
    /\ pc = "settled"
    /\ database
    /\ recorded' = recorded + 1
    /\ pc' = "recorded"
    /\ UNCHANGED <<strategy, result, database, seats, created, current_stack, orig_card,
                   pre_swap_card, current_card, attempted_to_swap,
                   target_of_swap, deck, round, dealer_button, current_low,
                   cur_losers, practice_round, turn, acted, error>>

\* SYNGame.__init__ sets self.database only when dbname is not None: without
\* it the test of self.database raises AttributeError
database_missing ==
    /\ pc = "settled"
    /\ ~database
    /\ error' = "AttributeError"
    /\ pc' = "idle"
    /\ UNCHANGED <<strategy, result, database, recorded, seats, created, current_stack,
                   orig_card, pre_swap_card, current_card, attempted_to_swap,
                   target_of_swap, deck, round, dealer_button, current_low,
                   cur_losers, practice_round, turn, acted>>

(***************************************************************************)
(* collect_all_hands                                                       *)
(***************************************************************************)
\* the collection gone wrong: the cards go back but the hands are not emptied
RECURSIVE DiscardAllKeepHands(_, _, _)
DiscardAllKeepHands(players, cc, d) ==
    IF players = <<>> THEN [cc |-> cc, d |-> d]
    ELSE LET p == Head(players) IN
         IF cc[p] = NoCard THEN DiscardAllKeepHands(Tail(players), cc, d)
         ELSE DiscardAllKeepHands(Tail(players), cc, return_card(d, cc[p]))

\* the players discard in list order: a held card goes to the bottom of the
\* deck and the hand is emptied
RECURSIVE DiscardAll(_, _, _)
DiscardAll(players, cc, d) ==
    IF players = <<>> THEN [cc |-> cc, d |-> d]
    ELSE LET p == Head(players) IN
         IF cc[p] = NoCard THEN DiscardAll(Tail(players), cc, d)
         ELSE DiscardAll(Tail(players), [cc EXCEPT ![p] = NoCard],
                         return_card(d, cc[p]))

\* play_a_round gone wrong: the hands are collected before the results are
\* recorded
collect_before_record ==
    /\ pc = "settled"
    /\ database
    /\ LET res == DiscardAll(Players, current_card, deck) IN
        /\ current_card' = res.cc
        /\ deck' = res.d
    /\ pc' = "collected"
    /\ UNCHANGED <<strategy, result, database, recorded, seats, created,
                   current_stack, orig_card, pre_swap_card, attempted_to_swap,
                   target_of_swap, round, dealer_button, current_low,
                   cur_losers, practice_round, turn, acted, error>>

collect_all_hands ==
    /\ pc = "recorded"
    /\ LET res == DiscardAll(Players, current_card, deck) IN
        /\ current_card' = res.cc
        /\ deck' = res.d
    /\ pc' = "collected"
    /\ UNCHANGED <<strategy, result, database, recorded, seats, created, current_stack,
                   orig_card, pre_swap_card, attempted_to_swap, target_of_swap,
                   round, dealer_button, current_low, cur_losers,
                   practice_round, turn, acted, error>>

(***************************************************************************)
(* advance_round                                                           *)
(***************************************************************************)
\* the rotation gone wrong: the button moves after a practice round too
button_after_any_round(practice, button) == (button + 1) % num_players

\* the rotation gone wrong: the button wraps at the number of seats
button_after_by_seats(practice, button) ==
    IF ~practice THEN (button + 1) % NumSeats ELSE button

\* if not practice_round: dealer_button = (dealer_button + 1) % len(players)
button_after(practice, button) ==
    IF ~practice THEN (button + 1) % num_players ELSE button

\* advance_round gone wrong: a practice round is not counted
advance_round_skips_practice ==
    /\ pc = "collected"
    /\ round' = IF practice_round THEN round ELSE round + 1
    /\ dealer_button' = button_after(practice_round, dealer_button)
    /\ pc' = "idle"
    /\ UNCHANGED <<strategy, result, database, recorded, seats, created,
                   current_stack, orig_card, pre_swap_card, current_card,
                   attempted_to_swap, target_of_swap, deck, current_low,
                   cur_losers, practice_round, turn, acted, error>>

advance_round ==
    /\ pc = "collected"
    /\ round' = round + 1
    /\ dealer_button' = button_after(practice_round, dealer_button)
    /\ pc' = "idle"
    /\ UNCHANGED <<strategy, result, database, recorded, seats, created, current_stack,
                   orig_card, pre_swap_card, current_card, attempted_to_swap,
                   target_of_swap, deck, current_low, cur_losers,
                   practice_round, turn, acted, error>>

Next ==
    \/ created < MaxPlayers /\ \E seat \in SeatIds :
            seat_new_player(SYNStrat, seat)
    \/ round < MaxRounds /\ \E practice \in BOOLEAN : start_round(practice)
    \/ round < MaxRounds /\ start_round_fails
    \/ process_turns_raises
    \/ \E swap \in BOOLEAN : process_turns_step(swap)
    \/ calculate_results
    \/ add_round_results
    \/ database_missing
    \/ collect_all_hands
    \/ advance_round

Spec == Init /\ [][Next]_vars

(***************************************************************************)
(* A longer game with fewer choices: a game with a database, every round   *)
(* a real (non-practice) round, every strategy answering "hold", and one   *)
(* more player object than Spec seats, for enough rounds to use up a       *)
(* stake.  Every behaviour of SpecLong is a behaviour of the program.      *)
(***************************************************************************)
LongRounds == StartStack + 2

InitLong == Init /\ database

NextLong ==
    \/ created < MaxPlayers + 1 /\ \E seat \in SeatIds :
            seat_new_player(SYNStrat, seat)
    \/ round < LongRounds /\ start_round(FALSE)
    \/ round < LongRounds /\ start_round_fails
    \/ process_turns_raises
    \/ process_turns_step(FALSE)
    \/ calculate_results
    \/ add_round_results
    \/ collect_all_hands
    \/ advance_round

SpecLong == InitLong /\ [][NextLong]_vars

(***************************************************************************)
(* The same game at a table that takes in no further player, for the       *)
(* rounds it takes to use up every stake and one round more.               *)
(***************************************************************************)
TieRounds == StartStack + 1

NextTies ==
    \/ created < MaxPlayers /\ \E seat \in SeatIds :
            seat_new_player(SYNStrat, seat)
    \/ round < TieRounds /\ start_round(FALSE)
    \/ round < TieRounds /\ start_round_fails
    \/ process_turns_raises
    \/ process_turns_step(FALSE)
    \/ calculate_results
    \/ add_round_results
    \/ collect_all_hands
    \/ advance_round

SpecTies == InitLong /\ [][NextTies]_vars

(***************************************************************************)
(* A game of practice rounds and real rounds, one round longer than Spec   *)
(* plays, in which every strategy answers "hold".                          *)
(***************************************************************************)
MoreRounds == MaxRounds + 1

NextRounds ==
    \/ created < MaxPlayers /\ \E seat \in SeatIds :
            seat_new_player(SYNStrat, seat)
    \/ round < MoreRounds /\ \E practice \in BOOLEAN : start_round(practice)
    \/ round < MoreRounds /\ start_round_fails
    \/ process_turns_raises
    \/ process_turns_step(FALSE)
    \/ calculate_results
    \/ add_round_results
    \/ collect_all_hands
    \/ advance_round

SpecRounds == InitLong /\ [][NextRounds]_vars

(***************************************************************************)
(* A game of real rounds, every strategy answering "hold", that a further  *)
(* player may join before or after any round.                              *)
(***************************************************************************)
NextJoin ==
    \/ created < MaxPlayers + 1 /\ \E seat \in SeatIds :
            seat_new_player(SYNStrat, seat)
    \/ round < MoreRounds /\ start_round(FALSE)
    \/ round < MoreRounds /\ start_round_fails
    \/ process_turns_raises
    \/ process_turns_step(FALSE)
    \/ calculate_results
    \/ add_round_results
    \/ collect_all_hands
    \/ advance_round

SpecJoin == InitLong /\ [][NextJoin]_vars

(***************************************************************************)
(* start_round called on tables of freshly seated players.                 *)
(***************************************************************************)
NextDeal ==
    \/ created < MaxPlayers /\ \E seat \in SeatIds :
            seat_new_player(SYNStrat, seat)
    \/ \E practice \in BOOLEAN : start_round(practice)

SpecDeal == Init /\ [][NextDeal]_vars

(***************************************************************************)
(* A game of real rounds whose players consult the strategies of           *)
(* strategies.py.                                                          *)
(***************************************************************************)
\* the values lowest_to_keep is configured with
Thresholds == Range(Rank)

Strategies ==
    {SYNStrat_cheater_villain} \cup
    {SYNStrat_naive_firstonly(lowest) : lowest \in Thresholds}

NextStrat ==
    \/ created < MaxPlayers /\ \E strat \in Strategies, seat \in SeatIds :
            seat_new_player(strat, seat)
    \/ round < MaxRounds /\ start_round(FALSE)
    \/ round < MaxRounds /\ start_round_fails
    \/ process_turns_raises
    \/ take_turn_raises
    \/ process_turns_run
    \/ calculate_results
    \/ add_round_results
    \/ collect_all_hands
    \/ advance_round

SpecStrat == InitLong /\ [][NextStrat]_vars

(***************************************************************************)
(* The deck on its own: a driver that calls the methods of the Deck of a   *)
(* new game, with cards it constructs itself.                              *)
(***************************************************************************)
\* deck.return_card(Card(suit, rank))
call_return_card(suit, rank) ==
    /\ IF return_card_raises(deck, Card(suit, rank))
       THEN /\ error' = "ValueError"
            /\ deck' = deck
       ELSE /\ error' = None
            /\ deck' = return_card(deck, Card(suit, rank))
    /\ result' = Call("return_card", Card(suit, rank), NoCard)
    /\ UNCHANGED <<strategy, database, recorded, seats, created,
                   current_stack, orig_card, pre_swap_card, current_card,
                   attempted_to_swap, target_of_swap, round, dealer_button,
                   current_low, cur_losers, pc, practice_round, turn, acted>>

\* deck.deal_single(): popleft raises IndexError on an empty deque
call_deal_single ==
    /\ IF deck = <<>>
       THEN /\ error' = "IndexError"
            /\ deck' = deck
            /\ result' = Call("deal_single", NoCard, NoCard)
       ELSE /\ error' = None
            /\ deck' = deal_single(deck).cards
            /\ result' = Call("deal_single", NoCard, deal_single(deck).card)
    /\ UNCHANGED <<strategy, database, recorded, seats, created,
                   current_stack, orig_card, pre_swap_card, current_card,
                   attempted_to_swap, target_of_swap, round, dealer_button,
                   current_low, cur_losers, pc, practice_round, turn, acted>>

\* deck.deal_specific(suit, rank)
call_deal_specific(suit, rank) ==
    /\ error' = None
    /\ deck' = deal_specific(deck, suit, rank).cards
    /\ result' = Call("deal_specific", Card(suit, rank),
                      deal_specific(deck, suit, rank).card)
    /\ UNCHANGED <<strategy, database, recorded, seats, created,
                   current_stack, orig_card, pre_swap_card, current_card,
                   attempted_to_swap, target_of_swap, round, dealer_button,
                   current_low, cur_losers, pc, practice_round, turn, acted>>

NextDeck ==
    \/ \E suit \in Range(Suit), rank \in Range(Rank) :
            call_return_card(suit, rank)
    \/ call_deal_single
    \/ \E suit \in Range(Suit), rank \in Range(Rank) :
            call_deal_specific(suit, rank)

SpecDeck == InitLong /\ [][NextDeck]_vars

(***************************************************************************)
(* The table on its own: a driver that constructs players and calls        *)
(* add_player with any of them, or with something that is no player, and   *)
(* with any seat number from below -num_seats to num_seats.                *)
(***************************************************************************)
SeatArgs == (-NumSeats - 1)..NumSeats

\* SYNPlayer(strat): a player that is not seated yet
new_player(strat) ==
    /\ created' = created + 1
    /\ strategy' = [strategy EXCEPT ![created + 1] = strat]
    /\ UNCHANGED <<result, database, recorded, seats, current_stack,
                   orig_card, pre_swap_card, current_card, attempted_to_swap,
                   target_of_swap, deck, round, dealer_button, current_low,
                   cur_losers, pc, practice_round, turn, acted, error>>

\* state.add_player(entity, seat)
call_add_player(entity, seat) ==
    /\ add_player(entity, seat) \/ add_player_raises(entity, seat)
    /\ result' = Call("add_player", [player |-> entity, seat |-> seat], NoCard)
    /\ UNCHANGED <<created, strategy>>

NextSeats ==
    \/ created < MaxPlayers /\ new_player(SYNStrat)
    \/ \E entity \in {NoPlayer} \cup 1..created, seat \in SeatArgs :
            call_add_player(entity, seat)

SpecSeats == InitLong /\ [][NextSeats]_vars

(***************************************************************************)
(* Properties                                                              *)
(***************************************************************************)
Seated == Range(Players)

\* the positions of play_a_round between its first and its last step
InRound == pc \in {"dealt", "turns", "processed", "settled", "recorded", "collected"}

\* the cards in the seated players' hands, in list order
RECURSIVE HeldBy(_)
HeldBy(players) ==
    IF players = <<>> THEN <<>>
    ELSE IF current_card[Head(players)] = NoCard THEN HeldBy(Tail(players))
    ELSE <<current_card[Head(players)]>> \o HeldBy(Tail(players))

\* the lowest rank in the seated players' hands
LowestHeld(cc) ==
    CHOOSE r \in {cc[p].rank : p \in Seated} :
        \A q \in Seated : r <= cc[q].rank

\* every seated player holds the same rank
AllTied == \A p, q \in Seated : current_card[p].rank = current_card[q].rank

\* this step is one iteration of process_turns
IsTurnStep == pc \in {"dealt", "turns"} /\ Len(acted') = Len(acted) + 1
\* this step is calculate_results
IsSettleStep == pc = "processed" /\ pc' = "settled"
\* the player a turn step has just consulted
JustActed == PlayerAt(acted'[Len(acted')][1])
\* the player whose turn is next in process_turns
ToAct == PlayerAt(CurSeat(turn))
\* this step is advance_round
IsAdvanceStep == pc = "collected" /\ pc' = "idle"

\* C1: at every position inside a round (so at every phase boundary) the
\* deck and the seated players' hands together hold every card of the full
\* deck exactly once.
CardsConserved ==
    InRound =>
        LET all == deck \o HeldBy(Players) IN
        /\ Len(all) = FullDeckSize
        /\ Range(all) = Range(NewDeck)

\* a round in which a player took a neighbour's card and the button drew
\* from the deck
CardsMoved ==
    /\ pc = "processed"
    /\ \E p \in Seated : target_of_swap[p]
    /\ attempted_to_swap[PlayerAt(dealer_button)]
    /\ current_card[PlayerAt(dealer_button)] # pre_swap_card[PlayerAt(dealer_button)]

\* C2: the deck is full when a round deals, it is full again once the hands
\* are collected, and then no seated player holds a card.
DeckRestored ==
    [][/\ (pc = "idle" /\ pc' = "dealt") => Len(deck) = FullDeckSize
       /\ (pc = "recorded" /\ pc' = "collected") =>
            /\ Len(deck') = FullDeckSize
            /\ \A p \in Seated : current_card'[p] = NoCard]_vars

\* the hands were collected after a round in which somebody asked to swap
CollectedAfterSwaps ==
    /\ pc = "collected"
    /\ Len(deck) = FullDeckSize
    /\ \E p \in Seated : attempted_to_swap[p]

\* C3: the k-th consultation of a round is that of list index button + k
\* (mod n); when process_turns is done every index was consulted exactly
\* once, the seat after the button first and the button last.
TurnOrder ==
    pc \in {"turns", "processed"} =>
        /\ \A k \in 1..Len(acted) :
                acted[k][1] = (dealer_button + k) % num_players
        /\ pc = "processed" =>
            /\ Len(acted) = num_players
            /\ acted[1][1] = (dealer_button + 1) % num_players
            /\ acted[num_players][1] = dealer_button
            /\ \A s \in 0..(num_players - 1) :
                    Cardinality({k \in 1..Len(acted) : acted[k][1] = s}) = 1

\* process_turns went through a table of at least two players
AllTurnsTaken ==
    /\ pc = "processed"
    /\ num_players >= 2
    /\ Len(acted) = num_players

\* C4: when the button's strategy asks to swap, no other player's card or
\* target_of_swap flag changes, and the button's old card is in the deck.
ButtonSwapsWithDeck ==
    [][(IsTurnStep /\ acted'[Len(acted')] = <<dealer_button, TRUE>>) =>
            LET button == PlayerAt(dealer_button) IN
            /\ \A q \in PlayerIds \ {button} :
                    /\ current_card'[q] = current_card[q]
                    /\ target_of_swap'[q] = target_of_swap[q]
            /\ current_card[button] \in Range(deck')]_vars

\* the button drew from the deck although the next seat held a card that
\* may be taken
ButtonDrewBesideStealable ==
    /\ pc = "processed"
    /\ attempted_to_swap[PlayerAt(dealer_button)]
    /\ current_card[PlayerAt(dealer_button)] # pre_swap_card[PlayerAt(dealer_button)]
    /\ is_stealable(current_card[PlayerAt(NextSeat(dealer_button))])

\* C5: when a player other than the button asks to swap and the next seat
\* holds a King, both keep their cards, the next player's target_of_swap
\* stays false and the asking player's attempted_to_swap is true.
KingBlocksSwap ==
    [][(/\ IsTurnStep
        /\ acted'[Len(acted')][2]
        /\ acted'[Len(acted')][1] # dealer_button
        /\ current_card[PlayerAt(NextSeat(acted'[Len(acted')][1]))].rank = King) =>
            LET cur_player == PlayerAt(acted'[Len(acted')][1])
                next_player == PlayerAt(NextSeat(acted'[Len(acted')][1]))
            IN /\ current_card'[cur_player] = current_card[cur_player]
               /\ current_card'[next_player] = current_card[next_player]
               /\ ~target_of_swap'[next_player]
               /\ attempted_to_swap'[cur_player]]_vars

\* the first to act asked to swap while the next seat held a King
SwapAgainstKing ==
    /\ pc = "turns"
    /\ turn = 1
    /\ acted[1][2]
    /\ acted[1][1] # dealer_button
    /\ current_card[PlayerAt(NextSeat(acted[1][1]))].rank = King
    /\ attempted_to_swap[PlayerAt(acted[1][1])]

\* C6: after calculate_results current_low is the lowest rank held, and
\* cur_losers lists exactly the players holding it, each once.
LosersAreLowest ==
    pc \in {"settled", "recorded"} =>
        /\ current_low = LowestHeld(current_card)
        /\ Range(cur_losers) = {p \in Seated : current_card[p].rank = current_low}
        /\ Cardinality(Range(cur_losers)) = Len(cur_losers)

\* a round settled with more than one player on the low rank
SettledWithTie ==
    /\ pc = "settled"
    /\ Len(cur_losers) >= 2
    /\ AllTied

\* C7: calculate_results takes a stake iff the round is not a practice round
\* and the losers are not the whole table or one of them has a stake left.
DeductionIffClaimed ==
    [][IsSettleStep =>
        ((current_stack' # current_stack) <=>
            (/\ ~practice_round
             /\ \/ cur_losers' # Players
                \/ \E k \in DOMAIN cur_losers' :
                        current_stack[cur_losers'[k]] > 0))]_vars

\* C8: in a real round where the whole table is tied and somebody has a
\* stake other than zero, every seated player's stake goes down by one.
FullTieDeducts ==
    [][(/\ IsSettleStep
        /\ ~practice_round
        /\ AllTied
        /\ \E p \in Seated : current_stack[p] # 0) =>
            \A p \in Seated : current_stack'[p] = current_stack[p] - 1]_vars

\* a real round settled with the whole table tied, each one stake down
TieSettled ==
    /\ pc = "settled"
    /\ ~practice_round
    /\ AllTied
    /\ \A p \in Seated : current_stack[p] = StartStack - 1

\* C9: no seated player's stake is ever negative.
StakesNeverNegative == \A p \in Seated : current_stack[p] >= 0

\* C10: a practice round changes no stake, and leaves current_low the
\* lowest rank held and cur_losers the players holding it.
PracticeKeepsStakes ==
    [][(IsSettleStep /\ practice_round) =>
            /\ current_stack' = current_stack
            /\ current_low' = LowestHeld(current_card)
            /\ Range(cur_losers') =
                    {p \in Seated : current_card[p].rank = LowestHeld(current_card)}
            /\ Len(cur_losers') = Cardinality(Range(cur_losers'))]_vars

\* a practice round settled with the whole table tied and stakes to lose
PracticeTieSettled ==
    /\ pc = "settled"
    /\ practice_round
    /\ AllTied
    /\ \A p \in Seated : current_stack[p] = StartStack

\* C11: in a real round that ends with the whole table tied and every
\* seated player's stake at zero, calculate_results changes no stake.
ZeroStakesKept ==
    [][(/\ IsSettleStep
        /\ ~practice_round
        /\ AllTied
        /\ \A p \in Seated : current_stack[p] = 0) =>
            current_stack' = current_stack]_vars

\* the turns of a real round are over, the whole table is tied and nobody
\* has a stake left: calculate_results is the next step
TiedWithNothingLeft ==
    /\ pc = "processed"
    /\ ~practice_round
    /\ num_players >= 2
    /\ AllTied
    /\ \A p \in Seated : current_stack[p] = 0

\* C12 (as stated): after a real round the button is one further, modulo
\* the number of seats of the table; after a practice round it has not moved.
ButtonModuloSeats ==
    [][IsAdvanceStep =>
        dealer_button' = IF practice_round THEN dealer_button
                         ELSE (dealer_button + 1) % NumSeats]_vars

\* C12 (amended): after a real round the button is one further, modulo the
\* number of seated players (it is an index into the player list, so it
\* passes to the next occupied seat and from the last back to the first);
\* after a practice round it has not moved.
ButtonModuloPlayers ==
    [][IsAdvanceStep =>
        dealer_button' = IF practice_round THEN dealer_button
                         ELSE (dealer_button + 1) % num_players]_vars

\* two real rounds were played at a table with an empty seat, and the
\* button is back on the first player
ButtonWrapped ==
    /\ pc = "idle"
    /\ round = MoreRounds
    /\ ~practice_round
    /\ num_players < NumSeats
    /\ dealer_button = 0

\* C13: advance_round, which ends every completed round, practice or not,
\* adds exactly one to the round counter; no other step changes it.
RoundCountsCompleted ==
    [][round' = IF IsAdvanceStep THEN round + 1 ELSE round]_vars

\* a practice round was completed and counted after another round
PracticeRoundCounted ==
    /\ pc = "idle"
    /\ practice_round
    /\ round = MoreRounds
    /\ recorded = round

\* C14 (as stated): a cheater asked for its answer holds iff its card is
\* strictly lower than every other seated player's card, and swaps otherwise.
CheaterHoldsWhenLowest ==
    [][(IsTurnStep /\ strategy[JustActed] = SYNStrat_cheater_villain) =>
        (attempted_to_swap'[JustActed] <=>
            ~(\A q \in Seated \ {JustActed} :
                current_card[JustActed].rank < current_card[q].rank))]_vars

\* C14 (amended): a cheater asked for its answer swaps iff no other seated
\* player's card is strictly lower than its own, and holds otherwise.
CheaterSwapsWhenLowest ==
    [][(IsTurnStep /\ strategy[JustActed] = SYNStrat_cheater_villain) =>
        (attempted_to_swap'[JustActed] <=>
            (\A q \in Seated \ {JustActed} :
                ~(current_card[q].rank < current_card[JustActed].rank)))]_vars

\* a cheater acting first asked to swap an Ace while every other player
\* held a King
CheaterSwappedLowest ==
    /\ pc = "turns"
    /\ turn = 1
    /\ LET p == PlayerAt(acted[1][1]) IN
        /\ strategy[p] = SYNStrat_cheater_villain
        /\ attempted_to_swap[p]
        /\ pre_swap_card[p].rank = Ace
        /\ \A q \in Seated \ {p} : current_card[q].rank = King

\* C15: a naive first-seat player is given a turn only as the first to act
\* of the round, and then asks to swap iff its rank is strictly below its
\* lowest_to_keep; when its turn comes later in the round, the round ends
\* with NotImplementedError and no answer is recorded.
NaiveFirstSeatOnly ==
    [][/\ (IsTurnStep /\ strategy[JustActed].name = "naive_firstonly") =>
            /\ turn = 0
            /\ attempted_to_swap'[JustActed] <=>
                    (current_card[JustActed].rank <
                        strategy[JustActed].lowest_to_keep)
       /\ (/\ pc \in {"dealt", "turns"}
           /\ num_players >= 2
           /\ turn > 0
           /\ turn < num_players
           /\ strategy[ToAct].name = "naive_firstonly") =>
            /\ error' = "NotImplementedError"
            /\ pc' = "idle"
            /\ acted' = acted
            /\ attempted_to_swap' = attempted_to_swap
            /\ current_card' = current_card]_vars

\* a naive player acting first kept a card of exactly its lowest_to_keep, and
\* the round then failed at the turn of another naive player
NaiveKeptThenFailed ==
    /\ pc = "idle"
    /\ error = "NotImplementedError"
    /\ Len(acted) = 1
    /\ LET p == PlayerAt(acted[1][1]) IN
        /\ strategy[p].name = "naive_firstonly"
        /\ pre_swap_card[p].rank = strategy[p].lowest_to_keep
        /\ ~attempted_to_swap[p]
    /\ strategy[ToAct].name = "naive_firstonly"

\* C17: play_a_round is given up for too few players or for a strategy that
\* raises only before calculate_results, and no step of the call up to
\* there (start_round, a turn, the failure itself) changes a stake, the round
\* counter, the dealer button or the number of results recorded: the failed
\* round leaves them as they were when the call began.
FailedRoundNotScored ==
    [][/\ (/\ error' # error
           /\ error' \in {"ValueError", "NotImplementedError"}) =>
                pc \in {"dealt", "turns"}
       /\ ((pc = "idle" /\ pc' = "dealt") \/ pc \in {"dealt", "turns"}) =>
            /\ current_stack' = current_stack
            /\ round' = round
            /\ dealer_button' = dealer_button
            /\ recorded' = recorded]_vars

\* a real round was given up at the button's turn after the first player
\* had asked to swap; nobody was scored and nothing was recorded
RoundGivenUp ==
    /\ pc = "idle"
    /\ error = "NotImplementedError"
    /\ ~practice_round
    /\ Len(acted) = 1
    /\ acted[1][2]
    /\ \A p \in Seated : current_stack[p] = StartStack
    /\ round = 0
    /\ recorded = 0

\* C16: when a player other than the button asks to swap and the next seat
\* holds a card that is not a King, each of the two ends with the card the
\* other held, the next player's target_of_swap is true, the asking player's
\* pre_swap_card is the card it held before, and no other player's card and
\* no card of the deck has moved.
SwapExchangesCards ==
    [][(/\ IsTurnStep
        /\ acted'[Len(acted')][2]
        /\ acted'[Len(acted')][1] # dealer_button
        /\ current_card[PlayerAt(NextSeat(acted'[Len(acted')][1]))].rank # King) =>
            LET cur_player == JustActed
                next_player == PlayerAt(NextSeat(acted'[Len(acted')][1]))
            IN /\ current_card'[cur_player] = current_card[next_player]
               /\ current_card'[next_player] = current_card[cur_player]
               /\ target_of_swap'[next_player]
               /\ pre_swap_card'[cur_player] = current_card[cur_player]
               /\ \A q \in PlayerIds \ {cur_player, next_player} :
                        current_card'[q] = current_card[q]
               /\ deck' = deck]_vars

\* the first to act has taken the card of the next seat, which now holds the
\* card the first to act was dealt
NeighbourCardTaken ==
    /\ pc = "turns"
    /\ turn = 1
    /\ acted[1][2]
    /\ acted[1][1] # dealer_button
    /\ LET cur_player == PlayerAt(acted[1][1])
           next_player == PlayerAt(NextSeat(acted[1][1]))
       IN /\ target_of_swap[next_player]
          /\ current_card[next_player] = pre_swap_card[cur_player]
          /\ current_card[cur_player] = orig_card[next_player]
          /\ current_card[cur_player] # pre_swap_card[cur_player]

\* C18: in a game built without a database, a call of play_a_round that got
\* as far as calculate_results (it left losers behind) has ended without an
\* error, with the deck full again and the round counted.
RoundCompletesWithoutDatabase ==
    (~database /\ pc = "idle" /\ cur_losers # <<>>) =>
        /\ error = None
        /\ Len(deck) = FullDeckSize
        /\ round > 0

\* C19: return_card of a card equal to one in the deck ends in ValueError
\* with the deck as it was; any other card becomes the last card of the
\* deck behind all the cards that were there, in their order, and
\* deal_single takes the first card, so the returned card is dealt after them.
ReturnedCardGoesLast ==
    [][/\ result'.op = "return_card" =>
            IF result'.arg \in Range(deck)
            THEN error' = "ValueError" /\ deck' = deck
            ELSE /\ error' = None
                 /\ Len(deck') = Len(deck) + 1
                 /\ deck'[Len(deck')] = result'.arg
                 /\ \A k \in 1..Len(deck) : deck'[k] = deck[k]
       /\ (result'.op = "deal_single" /\ deck # <<>>) =>
            /\ result'.ret = deck[1]
            /\ \A k \in 1..Len(deck') : deck'[k] = deck[k + 1]]_vars

\* the card that was on top of the new deck has been dealt and returned, it
\* is the last card of the deck, and returning an equal card again failed
ReturnedTwice ==
    /\ result.op = "return_card"
    /\ error = "ValueError"
    /\ result.arg = NewDeck[1]
    /\ deck # <<>>
    /\ deck[Len(deck)] = result.arg
    /\ Len(deck) < FullDeckSize

\* C20: deal_specific of a card that is not in the deck returns None without
\* an error and leaves the deck as it was; of a card that is in the deck it
\* returns that card and leaves the other cards, in their order.
DealSpecificTakesOnlyThatCard ==
    [][result'.op = "deal_specific" =>
        /\ error' = None
        /\ IF result'.arg \in Range(deck)
           THEN /\ result'.ret = result'.arg
                /\ Len(deck') = Len(deck) - 1
                /\ deck' = SelectSeq(deck, LAMBDA c : c # result'.arg)
           ELSE /\ result'.ret = NoCard
                /\ deck' = deck]_vars

\* a card was asked for that the deck, not empty, did not hold
AskedForMissingCard ==
    /\ result.op = "deal_specific"
    /\ result.ret = NoCard
    /\ result.arg \notin Range(deck)
    /\ deck # <<>>
    /\ error = None

\* C21: deal_single on a deck that is not empty returns its first card and
\* leaves the others, one fewer, in their order; on an empty deck it ends in
\* IndexError, returns no card and the deck stays empty.
DealSingleTakesTop ==
    [][result'.op = "deal_single" =>
        IF deck = <<>>
        THEN /\ error' = "IndexError"
             /\ result'.ret = NoCard
             /\ deck' = <<>>
        ELSE /\ error' = None
             /\ result'.ret = deck[1]
             /\ Len(deck') = Len(deck) - 1
             /\ \A k \in 1..Len(deck') : deck'[k] = deck[k + 1]]_vars

\* a card was asked of a deck that had been dealt out
DealtFromEmptyDeck ==
    /\ result.op = "deal_single"
    /\ error = "IndexError"
    /\ result.ret = NoCard
    /\ deck = <<>>

\* every seated player holds a card
AllHold == \A p \in Seated : current_card[p] # NoCard

\* C22: at each position of play_a_round the fields are as the order deal,
\* turns, settle, record, collect, advance leaves them: turns are taken only
\* with every seated player holding a card; the round is settled only after
\* the last turn, on the cards then held, and not before; the result is
\* recorded only after the settlement and while the hands are still held;
\* the hands are collected only after the record; the round is counted last.
PhasesInOrder ==
    /\ pc = "dealt" => (acted = <<>> /\ AllHold /\ cur_losers = <<>>)
    /\ pc = "turns" =>
            /\ Len(acted) > 0 /\ Len(acted) < num_players
            /\ AllHold /\ cur_losers = <<>>
    /\ pc = "processed" =>
            (Len(acted) = num_players /\ AllHold /\ cur_losers = <<>>)
    /\ pc \in {"settled", "recorded"} =>
            /\ Len(acted) = num_players /\ AllHold
            /\ cur_losers # <<>>
            /\ current_low = LowestHeld(current_card)
    /\ pc \in {"dealt", "turns", "processed", "settled"} => recorded = round
    /\ pc \in {"recorded", "collected"} => recorded = round + 1
    /\ pc = "collected" =>
            /\ \A p \in Seated : current_card[p] = NoCard
            /\ Len(deck) = FullDeckSize
            /\ cur_losers # <<>>
    /\ (pc = "idle" /\ error = None) => (recorded = round /\ DeckIsFull)

\* a round in which somebody asked to swap was settled and recorded, and only
\* then were the hands collected
RecordedThenCollected ==
    /\ pc = "collected"
    /\ recorded = round + 1
    /\ Len(acted) = num_players
    /\ \E k \in 1..Len(acted) : acted[k][2]
    /\ cur_losers # <<>>

\* C23: a seated player's get_relative_pos is its place in the turn order of
\* process_turns: the player of iteration i has i, the button has
\* num_players - 1, and the k-th player consulted in the round in progress
\* had k - 1.
RelativePosIsTurnOrder ==
    num_players >= 1 =>
        /\ \A i \in 0..(num_players - 1) :
                get_relative_pos(PlayerAt(CurSeat(i))) = i
        /\ get_relative_pos(PlayerAt(dealer_button)) = num_players - 1
        /\ pc \in {"turns", "processed", "settled", "recorded", "collected"} =>
                \A k \in 1..Len(acted) :
                    get_relative_pos(PlayerAt(acted[k][1])) = k - 1

\* all the players of a table with an empty seat have been consulted, the
\* first of them in relative position 0
ConsultedInRelativeOrder ==
    /\ pc = "processed"
    /\ num_players >= 2
    /\ num_players < NumSeats
    /\ Len(acted) = num_players
    /\ get_relative_pos(PlayerAt(acted[1][1])) = 0
    /\ get_relative_pos(PlayerAt(dealer_button)) # 0

\* C24: no player is in two seats of the table.
OneSeatPerPlayer ==
    \A p \in PlayerIds : Cardinality({s \in SeatIds : seats[s] = p}) <= 1

\* this step is a call of add_player, recorded in result
IsAddPlayerCall ==
    /\ result'.op = "add_player"
    /\ created' = created
    /\ (result' # result \/ seats' # seats \/ error' # error)

\* C30: a call of add_player with a seat that is not one of 0 .. num_seats-1
\* or with something that is no player raises and leaves the seats, and so
\* the player list and the player count, as they were.
BadSeatRejected ==
    [][(/\ IsAddPlayerCall
        /\ \/ result'.arg.seat \notin SeatIds
           \/ result'.arg.player = NoPlayer) =>
            /\ seats' = seats
            /\ error' # None]_vars

\* C25: whenever somebody is seated the dealer button is an index of the
\* player list, and when process_turns is about to run exactly one of its
\* iterations is the button's.
ButtonIsPlayerIndex ==
    LET n == num_players IN
    n >= 1 =>
        /\ dealer_button >= 0
        /\ dealer_button < n
        /\ pc = "dealt" =>
                Cardinality({i \in 0..(n - 1) : IsButtonSeat(CurSeat(i))}) = 1

\* a player has joined after a round moved the button off the first player,
\* and the turns of the next round have been taken
TurnsAfterJoin ==
    /\ pc = "processed"
    /\ round > 0
    /\ dealer_button > 0
    /\ num_players > MaxPlayers

\* C26: when a round has dealt, no seated player shows a pre_swap_card or a
\* swap flag of an earlier round and orig_card is the card just dealt; when
\* the hands are collected, all five per-round fields of every seated player
\* are cleared.
PerRoundFieldsFresh ==
    /\ pc = "dealt" =>
            \A p \in Seated :
                /\ orig_card[p] = current_card[p]
                /\ pre_swap_card[p] = NoCard
                /\ ~attempted_to_swap[p]
                /\ ~target_of_swap[p]
    /\ pc = "collected" =>
            \A p \in Seated :
                /\ orig_card[p] = NoCard
                /\ pre_swap_card[p] = NoCard
                /\ current_card[p] = NoCard
                /\ ~attempted_to_swap[p]
                /\ ~target_of_swap[p]

\* the lowest rank among the first n cards of a deck
LowestOfTop(d, n) ==
    CHOOSE r \in {d[k].rank : k \in 1..n} : \A k \in 1..n : r <= d[k].rank

\* C27: whatever order the shuffle leaves the deck in, start_round gives the
\* k-th card from the top to the k-th player of the list, as current_card
\* and as orig_card, leaves the rest of the deck in order, and sets
\* current_low to the lowest rank dealt; so once a round has dealt, every
\* seated player holds the card recorded as its orig_card and current_low is
\* the lowest rank held.
DealtInListOrder ==
    /\ (pc = "idle" /\ DeckIsFull) =>
            LET players == Players
                n == Len(players)
            IN
            \A shuffled \in ShuffleOutcomes(deck) :
                LET dealt == begin_turns(players, current_card, orig_card,
                                         shuffled)
                IN
                /\ \A k \in 1..n :
                        /\ dealt.cc[players[k]] = shuffled[k]
                        /\ dealt.oc[players[k]] = shuffled[k]
                /\ dealt.d = SubSeq(shuffled, n + 1, FullDeckSize)
                /\ n >= 1 =>
                        DealtLow(players, dealt.cc, King) =
                            LowestOfTop(shuffled, n)
    /\ pc = "dealt" =>
            /\ \A p \in Seated :
                    /\ current_card[p] # NoCard
                    /\ orig_card[p] = current_card[p]
            /\ Len(deck) = FullDeckSize - num_players
            /\ num_players >= 1 => current_low = LowestHeld(current_card)

\* a round has dealt cards of different ranks to several players
DealtMixedRanks ==
    /\ pc = "dealt"
    /\ num_players > 1
    /\ \E p, q \in Seated :
            /\ current_card[p].rank < current_card[q].rank
            /\ current_low = current_card[p].rank

\* C28: when the button's swap with the deck goes through, the card it held
\* becomes the bottom card of the deck, the deck keeps its size, and (there
\* being fewer players than cards) the card it holds afterwards is the card
\* that was on top of the deck, which is not the card it gave up.
ButtonDrawsFormerTop ==
    [][(/\ IsTurnStep
        /\ acted'[Len(acted')] = <<dealer_button, TRUE>>
        /\ pc' # "idle") =>
            LET button == PlayerAt(dealer_button) IN
            /\ deck'[Len(deck')] = current_card[button]
            /\ Len(deck') = Len(deck)
            /\ num_players < FullDeckSize =>
                    /\ current_card'[button] = Head(deck)
                    /\ current_card'[button] # current_card[button]]_vars

\* the button has swapped with the deck: its former card lies at the bottom
ButtonCardAtBottom ==
    /\ pc = "processed"
    /\ attempted_to_swap[PlayerAt(dealer_button)]
    /\ deck[Len(deck)] = pre_swap_card[PlayerAt(dealer_button)]
    /\ current_card[PlayerAt(dealer_button)] # pre_swap_card[PlayerAt(dealer_button)]

\* C29: while the deck is not full no round starts: no step from such an
\* idle state touches the deck, a card, a per-round field of a player, the
\* loser list or current_low; and the step that raises AssertionError
\* happens with a deck that is not full and changes nothing else at all.
ShortDeckStartsNothing ==
    [][/\ (pc = "idle" /\ ~DeckIsFull) =>
            /\ pc' = "idle"
            /\ UNCHANGED <<deck, orig_card, pre_swap_card, current_card,
                           attempted_to_swap, target_of_swap, cur_losers,
                           current_low, round, dealer_button, recorded>>
       /\ (error' = "AssertionError" /\ error # "AssertionError") =>
            /\ pc = "idle" /\ ~DeckIsFull
            /\ UNCHANGED <<strategy, result, database, recorded, seats,
                           created, current_stack, orig_card, pre_swap_card,
                           current_card, attempted_to_swap, target_of_swap,
                           deck, round, dealer_button, current_low,
                           cur_losers, pc, practice_round, turn,
                           acted>>]_vars

\* a round was refused after an aborted round left a card in a player's
\* hand and a current_low other than the initial one
StartRefusedAfterAbort ==
    /\ pc = "idle"
    /\ error = "AssertionError"
    /\ ~DeckIsFull
    /\ current_low # King
    /\ \E p \in Seated : current_card[p] # NoCard /\ orig_card[p] = current_card[p]

\* the seats of a table that are taken
OccupiedSeats(st) == {s \in SeatIds : st[s] # NoPlayer}

\* the k-th taken seat of a table, counted from seat 0
KthOccupied(st, k) ==
    CHOOSE s \in OccupiedSeats(st) :
        Cardinality({t \in OccupiedSeats(st) : t < s}) = k - 1

\* C31: after a successful add_player the player list has one entry per
\* occupied seat, in increasing seat order, and a player who was replaced in
\* the seat is no longer in the list.
PlayersAreOccupiedSeats ==
    [][(IsAddPlayerCall /\ error' = None) =>
            LET after == PlayersFrom(seats', 0)
                old == seats[list_index(result'.arg.seat)]
            IN
            /\ Len(after) = Cardinality(OccupiedSeats(seats'))
            /\ \A k \in 1..Len(after) :
                    after[k] = seats'[KthOccupied(seats', k)]
            /\ seats'[list_index(result'.arg.seat)] = result'.arg.player
            /\ (old # NoPlayer /\ old # result'.arg.player) =>
                    old \notin Range(after)]_vars

\* C32: a player that was consulted and did not ask to swap holds its
\* pre_swap_card for the rest of process_turns, so at the end of
\* process_turns every player whose attempted_to_swap is false holds its
\* pre_swap_card.
HoldersKeepPreSwapCard ==
    pc \in {"turns", "processed"} =>
        LET players == Players IN
        /\ \A k \in 1..Len(acted) :
                LET p == players[acted[k][1] + 1] IN
                ~acted[k][2] =>
                    /\ ~attempted_to_swap[p]
                    /\ current_card[p] = pre_swap_card[p]
        /\ pc = "processed" =>
                \A k \in 1..Len(players) :
                    ~attempted_to_swap[players[k]] =>
                        current_card[players[k]] = pre_swap_card[players[k]]

\* process_turns is done and a player that held had lost its dealt card to
\* the player acting before it
HolderWasTarget ==
    /\ pc = "processed"
    /\ \E p \in Seated :
            /\ ~attempted_to_swap[p]
            /\ target_of_swap[p]
            /\ pre_swap_card[p] # orig_card[p]
            /\ current_card[p] = pre_swap_card[p]

\* C33: at the end of process_turns every player whose target_of_swap is
\* false has the card it was dealt as pre_swap_card, and the first player
\* consulted never has target_of_swap set.
UntargetedPreSwapIsDealt ==
    /\ pc \in {"turns", "processed"} =>
            ~target_of_swap[Players[acted[1][1] + 1]]
    /\ pc = "processed" =>
            LET players == Players IN
            \A k \in 1..Len(players) :
                ~target_of_swap[players[k]] =>
                    pre_swap_card[players[k]] = orig_card[players[k]]

\* process_turns is done: one player's card was taken, and a player whose
\* card was not taken gave away the card it was dealt
TakenAndUntouched ==
    /\ pc = "processed"
    /\ \E p, q \in Seated :
            /\ target_of_swap[p]
            /\ pre_swap_card[p] # orig_card[p]
            /\ ~target_of_swap[q]
            /\ pre_swap_card[q] = orig_card[q]
            /\ current_card[q] # orig_card[q]

\* C34: at the end of process_turns every player but the button holds a
\* card that was dealt to some player at the start of the round, and at most
\* one held card is not among the dealt cards.
NonButtonHoldDealtCards ==
    pc = "processed" =>
        LET players == Players
            dealt == {orig_card[players[k]] : k \in 1..Len(players)}
        IN
        /\ \A k \in 1..Len(players) :
                k # dealer_button + 1 => current_card[players[k]] \in dealt
        /\ Cardinality({k \in 1..Len(players) :
                            current_card[players[k]] \notin dealt}) <= 1

\* process_turns is done: the button holds a card nobody was dealt and
\* another player holds the card dealt to somebody else
ButtonHoldsUndealtCard ==
    /\ pc = "processed"
    /\ \A p \in Seated : current_card[PlayerAt(dealer_button)] # orig_card[p]
    /\ \E p, q \in Seated :
            /\ p # q
            /\ p # PlayerAt(dealer_button)
            /\ current_card[p] = orig_card[q]

=============================================================================
